---- MODULE Spec2Model ----
(***************************************************************************)
(* Leaf-region segmentation (src/src/lib/leafCrops.ts, computeLeafCrops).  *)
(*                                                                         *)
(* Numbers: every quantity the code computes is an integer or a rational   *)
(* with a small denominator; Math.round(p / q) is modelled exactly as      *)
(* floor(p / q + 1/2).  Source widths above 320 are taken from sizes whose *)
(* scale factor 320 / srcW is a power of two, so that the IEEE double      *)
(* arithmetic of the code is exact and agrees with the rational model.     *)
(***************************************************************************)
EXTENDS Integers, Sequences, FiniteSets, TLC

VARIABLES
    pc,          \* position of the invocation: idle, decoding, segmented, returned, threw
    image,       \* the decoded image: [srcW, srcH, data] (data: pixel buffer of getImageData)
    maxLeaves,   \* the maxLeaves argument
    segCtxOk,    \* whether segCanvas.getContext('2d') returned a context
    components,  \* the components list after labeling (discovery order)
    picked,      \* components after sort and slice
    outCtxOk,    \* per picked component: whether outCanvas.getContext('2d') returned a context
    results,     \* the returned LeafCrop sequence
    decoded,     \* whether img.decode() has resolved
    grid,        \* step-by-step labeling: the raster [w, h, mask]
    lab,         \* step-by-step labeling: the locals of the labeling loops
    ghost,       \* step-by-step labeling: history of the run (not program state)
    probe,       \* one application of a pure helper: [fn, in, out]
    calls,       \* two concurrent invocations: per invocation its locals
    api          \* callAnalysisAPI: its locals and the history of its attempts

pipeVars == <<pc, image, maxLeaves, segCtxOk, components, picked, outCtxOk, results, decoded>>
labVars == <<grid, lab, ghost>>
vars == <<pc, image, maxLeaves, segCtxOk, components, picked, outCtxOk, results, decoded,
          grid, lab, ghost, probe, calls, api>>

(***************************************************************************)
(* Program constants                                                       *)
(***************************************************************************)
MaxSegW == 320
MinBlobArea == 200
MaxThumbW == 320
\* factor 1.2 passed to expandBBox, as numerator / denominator
ExpandFactor == <<12, 10>>

Max2(a, b) == IF a >= b THEN a ELSE b
Min2(a, b) == IF a <= b THEN a ELSE b

\* Math.round(num / den) for den > 0: floor(num / den + 1/2)
JsRound(num, den) == (2 * num + den) \div (2 * den)

clamp(value, min, max) == Max2(min, Min2(max, value))

\* expandBBox with the right and bottom edges left unclamped
expandBBoxNoUpperClamp(bbox, factor, maxW, maxH) ==
    LET fn == factor[1]
        fd == factor[2]
        x  == clamp(JsRound(2 * fd * bbox.x + fd * bbox.w - fn * bbox.w, 2 * fd), 0, maxW - 1)
        y  == clamp(JsRound(2 * fd * bbox.y + fd * bbox.h - fn * bbox.h, 2 * fd), 0, maxH - 1)
        x2 == JsRound(2 * fd * bbox.x + fd * bbox.w + fn * bbox.w, 2 * fd)
        y2 == JsRound(2 * fd * bbox.y + fd * bbox.h + fn * bbox.h, 2 * fd)
    IN  [x |-> x, y |-> y, w |-> Max2(1, x2 - x), h |-> Max2(1, y2 - y)]

\* expandBBox with the left and top edges left unclamped
expandBBoxNoLowerClamp(bbox, factor, maxW, maxH) ==
    LET fn == factor[1]
        fd == factor[2]
        x  == JsRound(2 * fd * bbox.x + fd * bbox.w - fn * bbox.w, 2 * fd)
        y  == JsRound(2 * fd * bbox.y + fd * bbox.h - fn * bbox.h, 2 * fd)
        x2 == clamp(JsRound(2 * fd * bbox.x + fd * bbox.w + fn * bbox.w, 2 * fd), 0, maxW)
        y2 == clamp(JsRound(2 * fd * bbox.y + fd * bbox.h + fn * bbox.h, 2 * fd), 0, maxH)
    IN  [x |-> x, y |-> y, w |-> Max2(1, x2 - x), h |-> Max2(1, y2 - y)]

\* expandBBox that divides the sides by the factor
expandBBoxInverse(bbox, factor, maxW, maxH) ==
    LET fn == factor[2]
        fd == factor[1]
        x  == clamp(JsRound(2 * fd * bbox.x + fd * bbox.w - fn * bbox.w, 2 * fd), 0, maxW - 1)
        y  == clamp(JsRound(2 * fd * bbox.y + fd * bbox.h - fn * bbox.h, 2 * fd), 0, maxH - 1)
        x2 == clamp(JsRound(2 * fd * bbox.x + fd * bbox.w + fn * bbox.w, 2 * fd), 0, maxW)
        y2 == clamp(JsRound(2 * fd * bbox.y + fd * bbox.h + fn * bbox.h, 2 * fd), 0, maxH)
    IN  [x |-> x, y |-> y, w |-> Max2(1, x2 - x), h |-> Max2(1, y2 - y)]

\* expandBBox that keeps the corner (x, y) and grows the box to the right and down
expandBBoxFromCorner(bbox, factor, maxW, maxH) ==
    LET fn == factor[1]
        fd == factor[2]
        x  == clamp(bbox.x, 0, maxW - 1)
        y  == clamp(bbox.y, 0, maxH - 1)
        x2 == clamp(JsRound(fd * bbox.x + fn * bbox.w, fd), 0, maxW)
        y2 == clamp(JsRound(fd * bbox.y + fn * bbox.h, fd), 0, maxH)
    IN  [x |-> x, y |-> y, w |-> Max2(1, x2 - x), h |-> Max2(1, y2 - y)]

expandBBox(bbox, factor, maxW, maxH) ==
    LET fn == factor[1]
        fd == factor[2]
        \* cx - w / 2 = x + bw / 2 - bw * factor / 2, over the denominator 2 * fd
        x  == clamp(JsRound(2 * fd * bbox.x + fd * bbox.w - fn * bbox.w, 2 * fd), 0, maxW - 1)
        y  == clamp(JsRound(2 * fd * bbox.y + fd * bbox.h - fn * bbox.h, 2 * fd), 0, maxH - 1)
        x2 == clamp(JsRound(2 * fd * bbox.x + fd * bbox.w + fn * bbox.w, 2 * fd), 0, maxW)
        y2 == clamp(JsRound(2 * fd * bbox.y + fd * bbox.h + fn * bbox.h, 2 * fd), 0, maxH)
    IN  [x |-> x, y |-> y, w |-> Max2(1, x2 - x), h |-> Max2(1, y2 - y)]

\* isLikelyGreen with inclusive dominance tests: g <= r + 20, g <= b + 15
isLikelyGreenInclusive(r, g, b) ==
    IF g < 50 THEN FALSE
    ELSE IF g <= r + 20 THEN FALSE
    ELSE IF g <= b + 15 THEN FALSE
    ELSE IF r + g + b < 120 THEN FALSE
    ELSE TRUE

isLikelyGreen(r, g, b) ==
    IF g < 50 THEN FALSE
    ELSE IF g < r + 20 THEN FALSE
    ELSE IF g < b + 15 THEN FALSE
    ELSE IF r + g + b < 120 THEN FALSE
    ELSE TRUE

(***************************************************************************)
(* Downscaler                                                              *)
(***************************************************************************)
TargetW(srcW) == Min2(MaxSegW, srcW)
\* the sizes <<w, h>> up to 6000 x 1000 for which the double h * scale, with
\* scale the double 320 / w, is not the rational h * 320 / w and lies on the
\* other side of a rounding boundary: the double 320 / 4992 is below 5 / 78,
\* and for these heights the product, exactly k + 1/2, comes out as the double
\* just below k + 1/2.  Both srcH * scale (line 58) and expanded.h * thumbScale
\* (line 172) are such products.
ScaleProductLow ==
    { <<4992, 117>>, <<4992, 195>>, <<4992, 351>>, <<4992, 429>>, <<4992, 663>>,
      <<4992, 741>>, <<4992, 819>>, <<4992, 897>>, <<4992, 975>> }

\* Math.max(1, Math.round(srcH * scale)) with scale = targetW / srcW, for
\* srcW <= 6000 and srcH <= 1000
TargetH(srcW, srcH) ==
    Max2(1, JsRound(srcH * TargetW(srcW), srcW)
            - (IF <<srcW, srcH>> \in ScaleProductLow THEN 1 ELSE 0))

\* BuildMask with the two arms of the conditional exchanged
BuildMaskInverted(data, n) ==
    [i \in 0..(n - 1) |-> IF isLikelyGreen(data[i][1], data[i][2], data[i][3]) THEN 0 ELSE 1]

\* mask[y * targetW + x] = isLikelyGreen(r, g, b) ? 1 : 0
BuildMask(data, n) ==
    [i \in 0..(n - 1) |-> IF isLikelyGreen(data[i][1], data[i][2], data[i][3]) THEN 1 ELSE 0]

(***************************************************************************)
(* Connected-component labeler                                             *)
(*                                                                         *)
(* A labeling state is the record of the locals of the two nested loops:   *)
(*   idx    the scan position (y * targetW + x) of the outer loops         *)
(*   stack, visited, comps                                                 *)
(*   cur    the component being filled: [area, minX, maxX, minY, maxY]     *)
(*   filling   TRUE inside the while (stack.length) loop                   *)
(***************************************************************************)
\* Neighbors without the pixel below (cur + targetW)
NeighborsNoDown(cur, targetW) == <<cur - 1, cur + 1, cur - targetW, cur - targetW>>

Neighbors(cur, targetW) == <<cur - 1, cur + 1, cur - targetW, cur + targetW>>

Abs(v) == IF v < 0 THEN -v ELSE v

\* IsNeighbor with the range check only, without the Manhattan-distance guard
IsNeighborNoWrapGuard(n, cur, targetW, targetH) == ~(n < 0 \/ n >= targetW * targetH)

\* the guard of the for (const n of neighbors) body: n is inside the raster and
\* at Manhattan distance 1 of cur
IsNeighbor(n, cur, targetW, targetH) ==
    IF n < 0 \/ n >= targetW * targetH THEN FALSE
    ELSE LET ny == n \div targetW
             nx == n - ny * targetW
             cy == cur \div targetW
             cx == cur - cy * targetW
         IN  Abs(nx - cx) + Abs(ny - cy) = 1

\* one iteration of for (const n of neighbors), applied to [stack, visited]
VisitNeighbor(sv, n, cur, mask, targetW, targetH) ==
    IF IsNeighbor(n, cur, targetW, targetH) /\ sv.visited[n] = 0 /\ mask[n] = 1
    THEN [stack |-> Append(sv.stack, n), visited |-> [sv.visited EXCEPT ![n] = 1]]
    ELSE sv

\* FillStep that marks a pixel visited when it is popped, not when it is pushed
FillStepMarkAtPop(s, mask, targetW, targetH) ==
    LET cur == s.stack[Len(s.stack)]
        cy  == cur \div targetW
        cx  == cur - cy * targetW
        vis == [s.visited EXCEPT ![cur] = 1]
        new == SelectSeq(Neighbors(cur, targetW),
                         LAMBDA n : IsNeighbor(n, cur, targetW, targetH) /\ vis[n] = 0 /\ mask[n] = 1)
    IN  [s EXCEPT !.stack = SubSeq(s.stack, 1, Len(s.stack) - 1) \o new,
                  !.visited = vis,
                  !.cur = [area |-> s.cur.area + 1,
                           minX |-> Min2(s.cur.minX, cx),
                           maxX |-> Max2(s.cur.maxX, cx),
                           minY |-> Min2(s.cur.minY, cy),
                           maxY |-> Max2(s.cur.maxY, cy)]]

\* FillStep without the line if (cy > maxY) maxY = cy
FillStepNoMaxY(s, mask, targetW, targetH) ==
    LET cur == s.stack[Len(s.stack)]
        cy  == cur \div targetW
        cx  == cur - cy * targetW
        nb  == Neighbors(cur, targetW)
        sv0 == [stack |-> SubSeq(s.stack, 1, Len(s.stack) - 1), visited |-> s.visited]
        sv1 == VisitNeighbor(sv0, nb[1], cur, mask, targetW, targetH)
        sv2 == VisitNeighbor(sv1, nb[2], cur, mask, targetW, targetH)
        sv3 == VisitNeighbor(sv2, nb[3], cur, mask, targetW, targetH)
        sv4 == VisitNeighbor(sv3, nb[4], cur, mask, targetW, targetH)
    IN  [s EXCEPT !.stack = sv4.stack,
                  !.visited = sv4.visited,
                  !.cur = [area |-> s.cur.area + 1,
                           minX |-> Min2(s.cur.minX, cx),
                           maxX |-> Max2(s.cur.maxX, cx),
                           minY |-> Min2(s.cur.minY, cy),
                           maxY |-> s.cur.maxY]]

\* one iteration of while (stack.length): pop, count, widen the box, push neighbours
FillStep(s, mask, targetW, targetH) ==
    LET cur == s.stack[Len(s.stack)]
        cy  == cur \div targetW
        cx  == cur - cy * targetW
        nb  == Neighbors(cur, targetW)
        sv0 == [stack |-> SubSeq(s.stack, 1, Len(s.stack) - 1), visited |-> s.visited]
        sv1 == VisitNeighbor(sv0, nb[1], cur, mask, targetW, targetH)
        sv2 == VisitNeighbor(sv1, nb[2], cur, mask, targetW, targetH)
        sv3 == VisitNeighbor(sv2, nb[3], cur, mask, targetW, targetH)
        sv4 == VisitNeighbor(sv3, nb[4], cur, mask, targetW, targetH)
    IN  [s EXCEPT !.stack = sv4.stack,
                  !.visited = sv4.visited,
                  !.cur = [area |-> s.cur.area + 1,
                           minX |-> Min2(s.cur.minX, cx),
                           maxX |-> Max2(s.cur.maxX, cx),
                           minY |-> Min2(s.cur.minY, cy),
                           maxY |-> Max2(s.cur.maxY, cy)]]

\* MinArea without the fixed arm of 200
MinAreaNoFloor(targetW, targetH) == JsRound(targetW * targetH, 100)

\* MinArea without the resolution-relative arm
MinAreaFixed(targetW, targetH) == MinBlobArea

\* Math.max(200, Math.round((targetW * targetH) * 0.01)); the double product
\* rounds as the rational does for every raster of up to 320 x 20000 pixels
MinArea(targetW, targetH) == Max2(MinBlobArea, JsRound(targetW * targetH, 100))

\* the end of one fill: filter tiny blobs, then the scan moves on
FillEnd(s, targetW, targetH) ==
    [s EXCEPT !.filling = FALSE,
              !.idx = s.idx + 1,
              !.comps = IF s.cur.area >= MinArea(targetW, targetH)
                        THEN Append(s.comps, s.cur) ELSE s.comps]

\* ScanStep whose continue leaves the scan position where it is
ScanStepNoAdvance(s, mask, targetW) ==
    IF mask[s.idx] = 0 \/ s.visited[s.idx] = 1
    THEN s
    ELSE LET y == s.idx \div targetW
             x == s.idx - y * targetW
         IN  [s EXCEPT !.visited[s.idx] = 1,
                       !.stack = Append(s.stack, s.idx),
                       !.filling = TRUE,
                       !.cur = [area |-> 0, minX |-> x, maxX |-> x, minY |-> y, maxY |-> y]]

\* ScanStep whose continue tests the mask only: if (!mask[idx]) continue
ScanStepIgnoreVisited(s, mask, targetW) ==
    IF mask[s.idx] = 0
    THEN [s EXCEPT !.idx = s.idx + 1]
    ELSE LET y == s.idx \div targetW
             x == s.idx - y * targetW
         IN  [s EXCEPT !.visited[s.idx] = 1,
                       !.stack = Append(s.stack, s.idx),
                       !.filling = TRUE,
                       !.cur = [area |-> 0, minX |-> x, maxX |-> x, minY |-> y, maxY |-> y]]

\* one iteration of the scan loops at pixel idx: skip, or seed a fill
ScanStep(s, mask, targetW) ==
    IF mask[s.idx] = 0 \/ s.visited[s.idx] = 1
    THEN [s EXCEPT !.idx = s.idx + 1]
    ELSE LET y == s.idx \div targetW
             x == s.idx - y * targetW
         IN  [s EXCEPT !.visited[s.idx] = 1,
                       !.stack = Append(s.stack, s.idx),
                       !.filling = TRUE,
                       !.cur = [area |-> 0, minX |-> x, maxX |-> x, minY |-> y, maxY |-> y]]

LabelDone(s, targetW, targetH) == ~s.filling /\ s.idx >= targetW * targetH

\* one step of the labeling loops
LabelStep(s, mask, targetW, targetH) ==
    IF LabelDone(s, targetW, targetH) THEN s
    ELSE IF s.filling
         THEN IF Len(s.stack) > 0 THEN FillStep(s, mask, targetW, targetH)
              ELSE FillEnd(s, targetW, targetH)
         ELSE ScanStep(s, mask, targetW)

LabelInit(n) ==
    [idx |-> 0, stack |-> <<>>, visited |-> [i \in 0..(n - 1) |-> 0], comps |-> <<>>,
     cur |-> [area |-> 0, minX |-> 0, maxX |-> 0, minY |-> 0, maxY |-> 0],
     filling |-> FALSE]

\* k consecutive steps of the labeling loops (k >= 0), stopping when labeling is done
RECURSIVE LabelRun(_, _, _, _, _)
LabelRun(s, k, mask, targetW, targetH) ==
    IF k = 0 \/ LabelDone(s, targetW, targetH) THEN s
    ELSE IF k = 1 THEN LabelStep(s, mask, targetW, targetH)
    ELSE LET half == LabelRun(s, k \div 2, mask, targetW, targetH)
         IN  LabelRun(half, k - (k \div 2), mask, targetW, targetH)

\* the labeling loops run to their end.  Each pixel is scanned once, and each
\* scan step seeds at most one fill, which pops every pushed pixel once and ends
\* once: LabelFuel steps suffice if the loops terminate at all, and a run that
\* is not done after them is reported as such (see Segment).
LabelFuel(n) == 3 * n + 1
Label(mask, targetW, targetH) ==
    LabelRun(LabelInit(targetW * targetH), LabelFuel(targetW * targetH), mask, targetW, targetH)

(***************************************************************************)
(* Blob selector                                                           *)
(***************************************************************************)
\* InsertByArea with the comparator (a, b) => a.area - b.area
RECURSIVE InsertByAreaAscending(_, _)
InsertByAreaAscending(seq, c) ==
    IF seq = <<>> THEN <<c>>
    ELSE IF c.area - seq[1].area < 0 THEN <<c>> \o seq
    ELSE <<seq[1]>> \o InsertByAreaAscending(Tail(seq), c)

\* InsertByArea of a sort that is not stable: c goes before the elements of its area
RECURSIVE InsertByAreaTiesFirst(_, _)
InsertByAreaTiesFirst(seq, c) ==
    IF seq = <<>> THEN <<c>>
    ELSE IF seq[1].area - c.area <= 0 THEN <<c>> \o seq
    ELSE <<seq[1]>> \o InsertByAreaTiesFirst(Tail(seq), c)

\* position at which Array.prototype.sort (stable) with (a, b) => b.area - a.area
\* places c among the already sorted seq: after every element of area >= c.area
RECURSIVE InsertByArea(_, _)
InsertByArea(seq, c) ==
    IF seq = <<>> THEN <<c>>
    ELSE IF seq[1].area - c.area < 0 THEN <<c>> \o seq
    ELSE <<seq[1]>> \o InsertByArea(Tail(seq), c)

RECURSIVE SortByArea(_)
SortByArea(seq) ==
    IF seq = <<>> THEN <<>>
    ELSE InsertByArea(SortByArea(SubSeq(seq, 1, Len(seq) - 1)), seq[Len(seq)])

\* Slice0 keeping one element too many
Slice0OffByOne(seq, end) == SubSeq(seq, 1, Min2(Len(seq), end + 1))

\* Array.prototype.slice(0, end) for an integer end >= 0
Slice0(seq, end) == SubSeq(seq, 1, Min2(Len(seq), end))

\* Pick that slices before it sorts
PickSliceThenSort(comps, leaves) == SortByArea(Slice0(comps, Max2(1, leaves)))

\* Pick without the sort: the first components in discovery order
PickUnsorted(comps, leaves) == Slice0(comps, Max2(1, leaves))

\* Pick without the floor of 1 on maxLeaves
PickNoFloor(comps, leaves) == Slice0(SortByArea(comps), Max2(0, leaves))

Pick(comps, leaves) == Slice0(SortByArea(comps), Max2(1, leaves))

(***************************************************************************)
(* Region mapper and cropper                                               *)
(***************************************************************************)
BBoxSmall(c) == [x |-> c.minX, y |-> c.minY, w |-> c.maxX - c.minX + 1, h |-> c.maxY - c.minY + 1]

\* Math.round(v / scale) with scale = targetW / srcW; the double quotient rounds
\* as the rational for srcW <= 320 and for the widths 640, 1280 and 4992
BBoxSrc(b, srcW) ==
    LET tw == TargetW(srcW)
    IN  [x |-> JsRound(b.x * srcW, tw), y |-> JsRound(b.y * srcW, tw),
         w |-> JsRound(b.w * srcW, tw), h |-> JsRound(b.h * srcW, tw)]

\* outW, outH of the thumbnail canvas: thumbScale = min(1, maxThumbW / expanded.w)
ThumbSize(e) ==
    IF e.w <= MaxThumbW
    THEN [w |-> Max2(1, e.w), h |-> Max2(1, e.h)]
    ELSE [w |-> Max2(1, MaxThumbW),
          h |-> Max2(1, JsRound(e.h * MaxThumbW, e.w)
                        - (IF <<e.w, e.h>> \in ScaleProductLow THEN 1 ELSE 0))]

\* the LeafCrop of one picked component.  dataUrl is the encoding of the
\* source rectangle drawn into the thumbnail canvas, modelled by the
\* drawImage arguments that determine it; rank is the position of the
\* component in picked (not a field of the program's LeafCrop).
CropOf(c, rank, srcW, srcH) ==
    LET expanded == expandBBox(BBoxSrc(BBoxSmall(c), srcW), ExpandFactor, srcW, srcH)
        out == ThumbSize(expanded)
    IN  [dataUrl |-> [sx |-> expanded.x, sy |-> expanded.y, sw |-> expanded.w,
                      sh |-> expanded.h, outW |-> out.w, outH |-> out.h],
         bbox |-> expanded,
         rank |-> rank]

\* CropLoop leaving the loop at the first null context instead of continuing
RECURSIVE CropLoopBreak(_, _, _, _, _, _)
CropLoopBreak(i, pk, ok, acc, srcW, srcH) ==
    IF i > Len(pk) THEN acc
    ELSE IF ~ok[i] THEN acc
    ELSE CropLoopBreak(i + 1, pk, ok, Append(acc, CropOf(pk[i], i, srcW, srcH)), srcW, srcH)

\* for (const c of picked): a component whose 2D context is null is skipped
RECURSIVE CropLoop(_, _, _, _, _, _)
CropLoop(i, pk, ok, acc, srcW, srcH) ==
    IF i > Len(pk) THEN acc
    ELSE IF ~ok[i] THEN CropLoop(i + 1, pk, ok, acc, srcW, srcH)
    ELSE CropLoop(i + 1, pk, ok, Append(acc, CropOf(pk[i], i, srcW, srcH)), srcW, srcH)

(***************************************************************************)
(* Input images: source dimensions and the pixel buffer that getImageData  *)
(* returns for the targetW x targetH segmentation canvas (RGB per pixel;   *)
(* the code never reads alpha).                                            *)
(***************************************************************************)
Green == <<0, 200, 0>>
Dark  == <<10, 10, 10>>
Black == <<0, 0, 0>>

PixelCount(srcW, srcH) == IF srcW = 0 \/ srcH = 0 THEN 0 ELSE TargetW(srcW) * TargetH(srcW, srcH)

Uniform(srcW, srcH, c) ==
    [srcW |-> srcW, srcH |-> srcH, data |-> [i \in 0..(PixelCount(srcW, srcH) - 1) |-> c]]

\* a rectangle of the segmentation raster: columns x0 .. x0 + w - 1, rows y0 .. y0 + h - 1
Rect(x0, y0, w, h) == [x0 |-> x0, y0 |-> y0, w |-> w, h |-> h]

InRect(r, x, y) == x >= r.x0 /\ x < r.x0 + r.w /\ y >= r.y0 /\ y < r.y0 + r.h

\* Green rectangles painted on a Black background
Paint(srcW, srcH, rects) ==
    LET tw == TargetW(srcW)
    IN  [srcW |-> srcW, srcH |-> srcH,
         data |-> [i \in 0..(PixelCount(srcW, srcH) - 1) |->
                     IF \E k \in 1..Len(rects) : InRect(rects[k], i % tw, i \div tw)
                     THEN Green ELSE Black]]

\* bands <<w, y0, h>> laid out left to right with one background column between them
RECURSIVE BandRects(_, _)
BandRects(bands, x0) ==
    IF bands = <<>> THEN <<>>
    ELSE <<Rect(x0, bands[1][2], bands[1][1], bands[1][3])>>
         \o BandRects(Tail(bands), x0 + bands[1][1] + 1)

Bands(srcW, srcH, bands) == Paint(srcW, srcH, BandRects(bands, 0))

\* 35 x 20 sources (not downscaled): three blobs in every order of area, equal
\* areas, a blob below the noise floor, an L-shaped blob, blobs touching at a corner
BlobImages ==
    { Bands(35, 20, <<<<10, 0, 20>>, <<11, 0, 20>>, <<12, 0, 20>>>>),
      Bands(35, 20, <<<<12, 0, 20>>, <<10, 0, 20>>, <<11, 0, 20>>>>),
      Bands(35, 20, <<<<11, 0, 20>>, <<12, 0, 20>>, <<10, 0, 20>>>>),
      Bands(35, 20, <<<<10, 0, 20>>, <<12, 0, 20>>, <<10, 0, 20>>>>),
      Bands(35, 20, <<<<11, 0, 20>>, <<11, 0, 20>>, <<11, 0, 20>>>>),
      Bands(35, 20, <<<<5, 0, 20>>, <<12, 2, 18>>, <<14, 0, 15>>>>),
      Bands(35, 20, <<<<12, 3, 17>>, <<11, 0, 19>>, <<10, 0, 20>>>>),
      Paint(35, 20, <<Rect(0, 0, 35, 4), Rect(0, 4, 5, 16), Rect(10, 6, 20, 12)>>),
      Paint(35, 20, <<Rect(0, 0, 17, 12), Rect(17, 12, 18, 8)>>) }

\* 640 wide sources, downscaled by 1/2 to 320 columns
WideImages ==
    { Bands(640, 4, <<<<100, 0, 2>>, <<105, 0, 2>>, <<110, 0, 2>>>>),
      Bands(640, 4, <<<<110, 0, 2>>, <<100, 0, 2>>, <<105, 0, 2>>>>),
      Bands(640, 4, <<<<200, 1, 1>>, <<110, 0, 2>>>>),
      Bands(640, 5, <<<<67, 0, 3>>, <<80, 0, 3>>, <<70, 0, 3>>, <<75, 0, 3>>>>) }

UniformSizes ==
    { <<0, 0>>, <<0, 5>>, <<5, 0>>, <<1, 1>>, <<14, 14>>, <<15, 14>>, <<20, 10>>,
      <<10, 20>>, <<200, 1>>, <<1, 200>>, <<640, 4>> }

UniformImages == { Uniform(sz[1], sz[2], c) : sz \in UniformSizes, c \in {Green, Dark, Black} }

\* two squares of different sizes on black, apart in every direction, each at
\* least as large as the noise floor: [srcW, srcH, big, small]
TwoSquareCases ==
    { [srcW |-> 35, srcH |-> 20, big |-> Rect(17, 2, 16, 16), small |-> Rect(0, 0, 15, 15)],
      [srcW |-> 35, srcH |-> 20, big |-> Rect(0, 0, 16, 16), small |-> Rect(18, 4, 15, 15)],
      [srcW |-> 33, srcH |-> 33, big |-> Rect(17, 17, 16, 16), small |-> Rect(0, 0, 15, 15)] }

TwoSquareImage(c) == Paint(c.srcW, c.srcH, <<c.small, c.big>>)

TwoSquareImages == { TwoSquareImage(c) : c \in TwoSquareCases }

\* rasters of fewer than 200 pixels: full, and with foreground shapes
SmallImages ==
    { Uniform(199, 1, Green), Uniform(1, 199, Green), Uniform(18, 11, Green),
      Paint(14, 14, <<Rect(0, 0, 14, 7), Rect(3, 7, 6, 7)>>),
      Paint(14, 14, <<Rect(0, 0, 7, 14), Rect(8, 0, 6, 14)>>),
      Paint(13, 15, <<Rect(1, 1, 11, 13)>>) }

Images == BlobImages \cup WideImages \cup UniformImages \cup TwoSquareImages \cup SmallImages

MaxLeavesBound == 3
Leaves == (-1)..MaxLeavesBound

(***************************************************************************)
(* 4-connectivity of a mask, by coordinates: Classes4 gives every          *)
(* foreground pixel the least index of its maximal 4-connected group, and  *)
(* -1 to every background pixel.                                           *)
(***************************************************************************)
SetMin(S) == CHOOSE m \in S : \A k \in S : m <= k

Around4(p, w, h) ==
    LET x == p % w
        y == p \div w
    IN  { q[2] * w + q[1] :
            q \in { c \in {<<x - 1, y>>, <<x + 1, y>>, <<x, y - 1>>, <<x, y + 1>>} :
                      c[1] >= 0 /\ c[1] < w /\ c[2] >= 0 /\ c[2] < h } }

Relax4(l, mask, w, h) ==
    [p \in 0..(w * h - 1) |->
        IF mask[p] = 0 THEN -1
        ELSE SetMin({l[p]} \cup { l[q] : q \in { r \in Around4(p, w, h) : mask[r] = 1 } })]

RECURSIVE Settle4(_, _, _, _)
Settle4(l, mask, w, h) ==
    LET r == Relax4(l, mask, w, h)
    IN  IF r = l THEN l ELSE Settle4(r, mask, w, h)

Classes4(mask, w, h) ==
    Settle4([p \in 0..(w * h - 1) |-> IF mask[p] = 0 THEN -1 ELSE p], mask, w, h)

(***************************************************************************)
(* History of a step-by-step labeling run, per pixel of the raster:        *)
(*   pushes[p]     how many times p was pushed on the stack                *)
(*   pops[p]       how many times p was popped and counted                 *)
(*   countedBy[p]  the fills (numbered from 1 in seed order) that popped   *)
(*                 and counted p                                           *)
(* and fills, the number of fills seeded so far; seed, the seed of the     *)
(* last fill; seeds, the seed of every fill; sizes, the final area of     *)
(* every finished fill; compFill, for                                      *)
(* every recorded component the number of the fill that produced it;       *)
(* seedStack, the greatest stack length found when a seed was taken;       *)
(* class4, the 4-connected classes of the mask (Classes4).                 *)
(***************************************************************************)
GhostInit(n) ==
    [pushes |-> [i \in 0..(n - 1) |-> 0],
     pops |-> [i \in 0..(n - 1) |-> 0],
     countedBy |-> [i \in 0..(n - 1) |-> {}],
     fills |-> 0, seed |-> 0, seeds |-> <<>>, sizes |-> <<>>, compFill |-> <<>>, seedStack |-> 0,
     class4 |-> [i \in 0..(n - 1) |-> -1]]

(***************************************************************************)
(* Concurrent invocations.  calls.heap is the sequence of the Image        *)
(* objects created so far, each with the src it was last given;            *)
(* calls.inv[i] holds the arguments and locals of invocation i, of which   *)
(* img is the index in calls.heap of the Image that loadImage returned.    *)
(***************************************************************************)
Invocations == {1, 2}

IdleCall ==
    [pc |-> "idle", sourceDataUrl |-> [srcW |-> 0, srcH |-> 0, data |-> <<>>], maxLeaves |-> 0,
     img |-> 0, segCtxOk |-> FALSE, outCtxOk |-> <<>>, results |-> <<>>]

\* loadImage on one Image object kept at module level and given a new src by every call
NewImageShared(heap, src) ==
    IF heap = <<>> THEN [heap |-> <<[src |-> src]>>, img |-> 1]
    ELSE [heap |-> [heap EXCEPT ![1] = [src |-> src]], img |-> 1]

\* const img = new Image(); img.src = src: a fresh object for every call
NewImage(heap, src) == [heap |-> Append(heap, [src |-> src]), img |-> Len(heap) + 1]

(***************************************************************************)
(* callAnalysisAPI (direct access to the Gemini API).  api holds           *)
(*   pc         "idle", "requesting" (generateContent awaited), "backoff"  *)
(*              (the retry delay awaited), "returned", "threw"             *)
(*   model      the position in MODELS_TO_TRY of the outer loop            *)
(*   attempt    the counter of the inner loop                              *)
(*   lastError, delay, result, thrown                                      *)
(*   log        history, not program state: for every call of              *)
(*              generateContent the model asked and how the attempt ended  *)
(*              ("pending", "ok", "transient", "fatal")                    *)
(*   lastFailed history: the error of the most recent failed attempt       *)
(* An error is [status, hasMessage, message]; message is the set of the    *)
(* substrings tested by the code that the error's message contains.        *)
(***************************************************************************)
MODELS_TO_TRY == <<"gemini-2.5-flash-lite", "gemini-2.0-flash-lite-preview-02-05", "gemini-1.5-flash">>
MAX_RETRIES_PER_MODEL == 2
BASE_DELAY == 1000
MaxDelay == 10000

MissingTokenError ==
    [status |-> 0, hasMessage |-> TRUE, message |-> {"GEMINI_SERVICE_TOKEN is missing"}]
AllFailedError ==
    [status |-> 0, hasMessage |-> TRUE, message |-> {"All, Gemini models failed to respond."}]

\* lastError, result, thrown and lastFailed are <<>> (null, nothing) or <<v>>
ApiIdle ==
    [pc |-> "idle", model |-> 0, attempt |-> 0, lastError |-> <<>>, delay |-> 0,
     result |-> <<>>, thrown |-> <<>>, log |-> <<>>, lastFailed |-> <<>>]

\* the errors an attempt can end with; status 0 is an error without a status
ApiErrors ==
    { [status |-> 429, hasMessage |-> TRUE, message |-> {}],
      [status |-> 503, hasMessage |-> TRUE, message |-> {}],
      [status |-> 0, hasMessage |-> TRUE, message |-> {"429"}],
      [status |-> 0, hasMessage |-> TRUE, message |-> {"quota"}],
      [status |-> 0, hasMessage |-> TRUE, message |-> {"RESOURCE_EXHAUSTED"}],
      [status |-> 400, hasMessage |-> TRUE, message |-> {"quota"}],
      [status |-> 400, hasMessage |-> TRUE, message |-> {}],
      [status |-> 404, hasMessage |-> TRUE, message |-> {}],
      [status |-> 0, hasMessage |-> TRUE, message |-> {"503"}],
      [status |-> 500, hasMessage |-> FALSE, message |-> {}] }

\* the errors that are a rate limit, an exhausted quota or an unavailable service
TransientErrors ==
    { e \in ApiErrors : \/ e.status \in {429, 503}
                        \/ e.message \cap {"429", "quota", "RESOURCE_EXHAUSTED"} # {} }

\* how an attempt that failed with error is entered in the history
Failure(error) == IF error \in TransientErrors THEN "transient" ELSE "fatal"

\* error.message?.includes(sub): undefined when there is no message
Includes(error, sub) == error.hasMessage /\ sub \in error.message

\* isTransientError that holds of every error
isTransientErrorAlways(error) == TRUE

isTransientError(error) ==
    \/ Includes(error, "429")
    \/ error.status = 429
    \/ Includes(error, "quota")
    \/ Includes(error, "RESOURCE_EXHAUSTED")
    \/ error.status = 503

RECURSIVE Pow2(_)
Pow2(n) == IF n = 0 THEN 1 ELSE 2 * Pow2(n - 1)

\* the values of Math.random() * 500 taken into account
Jitters == {0, 250, 499}

\* a with the call of generateContent on model m, attempt k, under way
Request(a, m, k) ==
    [a EXCEPT !.pc = "requesting", !.model = m, !.attempt = k,
              !.log = Append(a.log, [model |-> MODELS_TO_TRY[m], outcome |-> "pending"])]

\* a with its pending attempt ended as outcome
Ended(a, outcome) == [a EXCEPT !.log[Len(a.log)].outcome = outcome]

\* the catch block with one attempt more on every model: attempt <= MAX_RETRIES_PER_MODEL
CatchOneRetryMore(a, error, jitter) ==
    LET b == [Ended(a, Failure(error))
                EXCEPT !.lastError = <<error>>, !.lastFailed = <<error>>]
    IN  IF isTransientError(error)
        THEN IF a.attempt <= MAX_RETRIES_PER_MODEL
             THEN [b EXCEPT !.pc = "backoff",
                            !.delay = Min2(Pow2(a.attempt) * BASE_DELAY + jitter, MaxDelay)]
             ELSE IF a.model < Len(MODELS_TO_TRY)
                  THEN Request(b, a.model + 1, 0)
                  ELSE [b EXCEPT !.pc = "threw", !.thrown = b.lastError]
        ELSE [b EXCEPT !.pc = "threw", !.thrown = <<error>>]

\* the catch block (lines 127-155) and what follows it without suspension: the
\* backoff, the first attempt on the next model, or the throw of line 153 or 161
Catch(a, error, jitter) ==
    LET b == [Ended(a, Failure(error))
                EXCEPT !.lastError = <<error>>, !.lastFailed = <<error>>]
    IN  IF isTransientError(error)
        THEN IF a.attempt < MAX_RETRIES_PER_MODEL
             THEN [b EXCEPT !.pc = "backoff",
                            !.delay = Min2(Pow2(a.attempt) * BASE_DELAY + jitter, MaxDelay)]
             ELSE IF a.model < Len(MODELS_TO_TRY)
                  THEN Request(b, a.model + 1, 0)
                  ELSE [b EXCEPT !.pc = "threw",
                                 !.thrown = IF b.lastError # <<>> THEN b.lastError
                                            ELSE <<AllFailedError>>]
        ELSE [b EXCEPT !.pc = "threw", !.thrown = <<error>>]

(***************************************************************************)
(* computeLeafCrops as a state machine                                     *)
(***************************************************************************)
Init ==
    /\ pc = "idle"
    /\ image = [srcW |-> 0, srcH |-> 0, data |-> <<>>]
    /\ maxLeaves = 0
    /\ segCtxOk = FALSE
    /\ components = <<>>
    /\ picked = <<>>
    /\ outCtxOk = <<>>
    /\ results = <<>>
    /\ decoded = FALSE
    /\ grid = [w |-> 0, h |-> 0, mask |-> <<>>]
    /\ lab = LabelInit(0)
    /\ ghost = GhostInit(0)
    /\ probe = [fn |-> "none"]
    /\ calls = [inv |-> [i \in Invocations |-> IdleCall], heap |-> <<>>]
    /\ api = ApiIdle

\* computeLeafCrops(sourceDataUrl, maxLeaves) up to await img.decode()
Call ==
    /\ pc = "idle"
    /\ \E img \in Images, m \in Leaves :
          /\ image' = img
          /\ maxLeaves' = m
    /\ pc' = "decoding"
    /\ UNCHANGED <<segCtxOk, components, picked, outCtxOk, results, decoded>>
    /\ UNCHANGED <<labVars, probe, calls, api>>

\* img.decode() rejects: the rejection propagates out of computeLeafCrops
DecodeReject ==
    /\ pc = "decoding"
    /\ pc' = "threw"
    /\ UNCHANGED <<image, maxLeaves, segCtxOk, components, picked, outCtxOk, results, decoded>>
    /\ UNCHANGED <<labVars, probe, calls, api>>

\* Segment without the null check of segCtx: labeling goes on with the buffer
SegmentNoCtxCheck(img, ctxOk) ==
    IF img.srcW = 0 \/ img.srcH = 0 THEN [pcNext |-> "returned", comps |-> <<>>]
    ELSE LET targetW == TargetW(img.srcW)
             targetH == TargetH(img.srcW, img.srcH)
             mask == BuildMask(img.data, targetW * targetH)
             s == Label(mask, targetW, targetH)
         IN  IF ~LabelDone(s, targetW, targetH) THEN [pcNext |-> "labeling", comps |-> s.comps]
             ELSE IF Len(s.comps) = 0 THEN [pcNext |-> "returned", comps |-> <<>>]
             ELSE [pcNext |-> "segmented", comps |-> s.comps]

\* Segment without the null check of segCtx: segCtx.drawImage throws on null
SegmentThrowsOnNullCtx(img, ctxOk) ==
    IF img.srcW = 0 \/ img.srcH = 0 THEN [pcNext |-> "returned", comps |-> <<>>]
    ELSE IF ~ctxOk THEN [pcNext |-> "threw", comps |-> <<>>]
    ELSE LET targetW == TargetW(img.srcW)
             targetH == TargetH(img.srcW, img.srcH)
             mask == BuildMask(img.data, targetW * targetH)
             s == Label(mask, targetW, targetH)
         IN  IF ~LabelDone(s, targetW, targetH) THEN [pcNext |-> "labeling", comps |-> s.comps]
             ELSE IF Len(s.comps) = 0 THEN [pcNext |-> "returned", comps |-> <<>>]
             ELSE [pcNext |-> "segmented", comps |-> s.comps]

\* the outcome of lines 51-144: the components list and whether the function
\* goes on to crop; pcNext is "returned" at each early return []
Segment(img, ctxOk) ==
    IF img.srcW = 0 \/ img.srcH = 0 THEN [pcNext |-> "returned", comps |-> <<>>]
    ELSE IF ~ctxOk THEN [pcNext |-> "returned", comps |-> <<>>]
    ELSE LET targetW == TargetW(img.srcW)
             targetH == TargetH(img.srcW, img.srcH)
             mask == BuildMask(img.data, targetW * targetH)
             s == Label(mask, targetW, targetH)
         IN  IF ~LabelDone(s, targetW, targetH) THEN [pcNext |-> "labeling", comps |-> s.comps]
             ELSE IF Len(s.comps) = 0 THEN [pcNext |-> "returned", comps |-> <<>>]
             ELSE [pcNext |-> "segmented", comps |-> s.comps]

\* img.decode() resolves; downscale, classify, label and filter
DecodeResolve ==
    /\ pc = "decoding"
    /\ \E ctxOk \in BOOLEAN :
          LET r == Segment(image, ctxOk)
          IN  /\ segCtxOk' = ctxOk
              /\ pc' = r.pcNext
              /\ components' = r.comps
    /\ decoded' = TRUE
    /\ UNCHANGED <<image, maxLeaves, picked, outCtxOk, results>>
    /\ UNCHANGED <<labVars, probe, calls, api>>

\* sort, slice, crop every picked component and return
Crop ==
    /\ pc = "segmented"
    /\ LET pk == Pick(components, maxLeaves)
       IN  /\ picked' = pk
           /\ \E ok \in [1..Len(pk) -> BOOLEAN] :
                 /\ outCtxOk' = ok
                 /\ results' = CropLoop(1, pk, ok, <<>>, image.srcW, image.srcH)
    /\ pc' = "returned"
    /\ UNCHANGED <<image, maxLeaves, segCtxOk, components, decoded>>
    /\ UNCHANGED <<labVars, probe, calls, api>>

Next == Call \/ DecodeReject \/ DecodeResolve \/ Crop

Spec == Init /\ [][Next]_vars

(***************************************************************************)
(* Full-frame inputs: uniformly foreground images, among them the          *)
(* 100 x 100 frame, run through the same pipeline.                         *)
(***************************************************************************)
FrameImages ==
    { Uniform(100, 100, Green), Uniform(15, 14, Green), Uniform(640, 4, Green),
      Uniform(640, 5, Green), Uniform(20, 10, Green), Uniform(200, 1, Green),
      Uniform(1280, 5, Green), Uniform(1280, 8, Green), Uniform(4992, 117, Green) }

CallFrame ==
    /\ pc = "idle"
    /\ \E img \in FrameImages, m \in Leaves :
          /\ image' = img
          /\ maxLeaves' = m
    /\ pc' = "decoding"
    /\ UNCHANGED <<segCtxOk, components, picked, outCtxOk, results, decoded>>
    /\ UNCHANGED <<labVars, probe, calls, api>>

NextFrame == CallFrame \/ DecodeReject \/ DecodeResolve \/ Crop

SpecFrame == Init /\ [][NextFrame]_vars

(***************************************************************************)
(* Inputs around the noise floor: rectangles of known areas, apart from    *)
(* one another, on rasters whose hundredth part is below, at and above 200 *)
(* [srcW, srcH, rects].                                                    *)
(***************************************************************************)
FloorCases ==
    { [srcW |-> 250, srcH |-> 3,
       rects |-> <<Rect(0, 0, 199, 1), Rect(0, 2, 200, 1)>>],
      [srcW |-> 123, srcH |-> 163,
       rects |-> <<Rect(0, 0, 100, 2), Rect(0, 3, 99, 2), Rect(0, 6, 67, 3)>>],
      [srcW |-> 50, srcH |-> 401,
       rects |-> <<Rect(0, 0, 50, 4), Rect(0, 5, 3, 67), Rect(5, 5, 2, 101), Rect(10, 5, 1, 199)>>],
      [srcW |-> 640, srcH |-> 126,
       rects |-> <<Rect(0, 0, 67, 3), Rect(68, 0, 101, 2), Rect(170, 0, 100, 2), Rect(271, 0, 29, 7)>>],
      [srcW |-> 640, srcH |-> 200,
       rects |-> <<Rect(0, 0, 29, 11), Rect(30, 0, 32, 10), Rect(63, 0, 107, 3), Rect(171, 0, 100, 2)>>],
      [srcW |-> 320, srcH |-> 100,
       rects |-> <<Rect(0, 50, 319, 1), Rect(0, 52, 320, 1), Rect(0, 54, 200, 1)>>] }

FloorImage(c) == Paint(c.srcW, c.srcH, c.rects)

FloorImages == { FloorImage(c) : c \in FloorCases }

CallFloor ==
    /\ pc = "idle"
    /\ \E img \in FloorImages, m \in Leaves :
          /\ image' = img
          /\ maxLeaves' = m
    /\ pc' = "decoding"
    /\ UNCHANGED <<segCtxOk, components, picked, outCtxOk, results, decoded>>
    /\ UNCHANGED <<labVars, probe, calls, api>>

NextFloor == CallFloor \/ DecodeReject \/ DecodeResolve \/ Crop

SpecFloor == Init /\ [][NextFloor]_vars

(***************************************************************************)
(* Two invocations that interleave at await img.decode(): everything after *)
(* the await runs without suspension, so it is one step of an invocation.  *)
(***************************************************************************)
\* one blob, another blob, two blobs, no foreground
PairImages ==
    { Uniform(15, 14, Green), Uniform(20, 10, Green),
      Paint(21, 20, <<Rect(0, 0, 10, 20), Rect(11, 0, 10, 20)>>), Uniform(5, 5, Dark) }

PairLeaves == {1, 2}

\* computeLeafCrops(sourceDataUrl, maxLeaves) up to await img.decode()
PairCall(i) ==
    /\ calls.inv[i].pc = "idle"
    /\ \E src \in PairImages, m \in PairLeaves :
          LET new == NewImage(calls.heap, src)
          IN  calls' = [heap |-> new.heap,
                        inv |-> [calls.inv EXCEPT ![i] =
                                    [@ EXCEPT !.pc = "decoding", !.sourceDataUrl = src,
                                              !.maxLeaves = m, !.img = new.img]]]
    /\ UNCHANGED <<pipeVars, labVars, probe, api>>

\* img.decode() of invocation i rejects
PairDecodeReject(i) ==
    /\ calls.inv[i].pc = "decoding"
    /\ calls' = [calls EXCEPT !.inv[i].pc = "threw"]
    /\ UNCHANGED <<pipeVars, labVars, probe, api>>

\* img.decode() of invocation i resolves: lines 51-199 on the Image it holds
PairResume(i) ==
    /\ calls.inv[i].pc = "decoding"
    /\ \E ctxOk \in BOOLEAN :
          \E image_i \in {calls.heap[calls.inv[i].img].src} :
          \E r \in {Segment(image_i, ctxOk)} :
          \E pk \in {IF r.pcNext = "segmented" THEN Pick(r.comps, calls.inv[i].maxLeaves) ELSE <<>>} :
          \E ok \in [1..Len(pk) -> BOOLEAN] :
              calls' = [calls EXCEPT
                           !.inv[i].pc = IF r.pcNext = "segmented" THEN "returned" ELSE r.pcNext,
                           !.inv[i].segCtxOk = ctxOk,
                           !.inv[i].outCtxOk = ok,
                           !.inv[i].results =
                               CropLoop(1, pk, ok, <<>>, image_i.srcW, image_i.srcH)]
    /\ UNCHANGED <<pipeVars, labVars, probe, api>>

NextPair == \E i \in Invocations : PairCall(i) \/ PairDecodeReject(i) \/ PairResume(i)

SpecPair == Init /\ [][NextPair]_vars

(***************************************************************************)
(* The labeling loops step by step: one action per iteration of the scan   *)
(* loops, per iteration of the while loop and per end of a fill, on every  *)
(* mask of a GridW x GridH raster and on rasters with blobs above the      *)
(* noise floor.                                                            *)
(***************************************************************************)
GridW == 3
GridH == 3

GridImages ==
    { [srcW |-> GridW, srcH |-> GridH, data |-> d] :
        d \in [0..(GridW * GridH - 1) -> {Green, Black}] }

\* a full raster; a dot and a blob with a tail; a blob away from every edge; two blobs
\* that end and begin on the raster's right and left columns; the same with the
\* second one below the noise floor; two blobs of equal area, the right one
\* seeded first
BlobRasters ==
    { Uniform(15, 14, Green),
      Paint(17, 15, <<Rect(0, 0, 1, 1), Rect(2, 0, 15, 14), Rect(5, 14, 5, 1)>>),
      Paint(17, 16, <<Rect(1, 1, 15, 14)>>),
      Paint(21, 20, <<Rect(0, 0, 10, 20), Rect(11, 0, 10, 20)>>),
      Paint(21, 20, <<Rect(0, 1, 10, 19), Rect(11, 0, 10, 20)>>),
      Paint(21, 21, <<Rect(11, 0, 10, 20), Rect(0, 1, 10, 20)>>) }

LabelImages == GridImages \cup BlobRasters

\* lines 45-88 for a decodable image and a non-null segCtx: the raster, its
\* mask, and the empty visited, components and stack
LabelBegin ==
    /\ pc = "idle"
    /\ \E img \in LabelImages :
          LET targetW == TargetW(img.srcW)
              targetH == TargetH(img.srcW, img.srcH)
              mask == BuildMask(img.data, targetW * targetH)
          IN  /\ image' = img
              /\ grid' = [w |-> targetW, h |-> targetH, mask |-> mask]
              /\ lab' = LabelInit(targetW * targetH)
              /\ ghost' = [GhostInit(targetW * targetH) EXCEPT
                              !.class4 = Classes4(mask, targetW, targetH)]
    /\ pc' = "labeling"
    /\ segCtxOk' = TRUE
    /\ decoded' = TRUE
    /\ UNCHANGED <<maxLeaves, components, picked, outCtxOk, results, probe, calls, api>>

\* the history after a scan step from s to t
GhostScan(g, s, t) ==
    IF ~t.filling THEN g
    ELSE [g EXCEPT !.fills = g.fills + 1,
                   !.seed = s.idx,
                   !.seeds = Append(g.seeds, s.idx),
                   !.seedStack = Max2(g.seedStack, Len(s.stack)),
                   !.pushes[s.idx] = g.pushes[s.idx] + 1]

\* the history after a fill step from s to t: the top of s.stack was popped and
\* counted, the elements of t.stack above the rest of s.stack were pushed
GhostFill(g, s, t) ==
    LET cur == s.stack[Len(s.stack)]
        new == SubSeq(t.stack, Len(s.stack), Len(t.stack))
    IN  [g EXCEPT !.pops[cur] = g.pops[cur] + 1,
                  !.countedBy[cur] = g.countedBy[cur] \cup {g.fills},
                  !.pushes = [p \in DOMAIN g.pushes |->
                                g.pushes[p] + Cardinality({ i \in DOMAIN new : new[i] = p })]]

\* the history after the end of a fill from s to t
GhostFillEnd(g, s, t) ==
    [g EXCEPT !.sizes = Append(g.sizes, s.cur.area),
              !.compFill = IF Len(t.comps) > Len(s.comps)
                           THEN Append(g.compFill, g.fills) ELSE g.compFill]

\* one iteration of the scan loops (lines 90-102)
LabelScan ==
    /\ pc = "labeling"
    /\ ~lab.filling
    /\ lab.idx < grid.w * grid.h
    /\ lab' = ScanStep(lab, grid.mask, grid.w)
    /\ ghost' = GhostScan(ghost, lab, lab')
    /\ UNCHANGED <<pipeVars, grid, probe, calls, api>>

\* one iteration of while (stack.length) (lines 104-134)
LabelFill ==
    /\ pc = "labeling"
    /\ lab.filling
    /\ Len(lab.stack) > 0
    /\ lab' = FillStep(lab, grid.mask, grid.w, grid.h)
    /\ ghost' = GhostFill(ghost, lab, lab')
    /\ UNCHANGED <<pipeVars, grid, probe, calls, api>>

\* the while loop ends: filter tiny blobs (lines 136-141)
LabelFillEnd ==
    /\ pc = "labeling"
    /\ lab.filling
    /\ Len(lab.stack) = 0
    /\ lab' = FillEnd(lab, grid.w, grid.h)
    /\ ghost' = GhostFillEnd(ghost, lab, lab')
    /\ UNCHANGED <<pipeVars, grid, probe, calls, api>>

\* the scan loops end
LabelFinish ==
    /\ pc = "labeling"
    /\ LabelDone(lab, grid.w, grid.h)
    /\ pc' = "labeled"
    /\ components' = lab.comps
    /\ UNCHANGED <<image, maxLeaves, segCtxOk, picked, outCtxOk, results, decoded>>
    /\ UNCHANGED <<labVars, probe, calls, api>>

\* return [] when no component was recorded (line 144), else sort and slice
\* (lines 146-147); maxLeaves is not read before line 147
LabelSelect ==
    /\ pc = "labeled"
    /\ \E m \in Leaves :
          /\ maxLeaves' = m
          /\ picked' = IF Len(components) = 0 THEN <<>> ELSE Pick(components, m)
    /\ pc' = IF Len(components) = 0 THEN "returned" ELSE "picked"
    /\ UNCHANGED <<image, segCtxOk, components, outCtxOk, results, decoded>>
    /\ UNCHANGED <<labVars, probe, calls, api>>

\* crop every picked component and return (lines 150-198)
LabelCrop ==
    /\ pc = "picked"
    /\ \E ok \in [1..Len(picked) -> BOOLEAN] :
          /\ outCtxOk' = ok
          /\ results' = CropLoop(1, picked, ok, <<>>, image.srcW, image.srcH)
    /\ pc' = "returned"
    /\ UNCHANGED <<image, maxLeaves, segCtxOk, components, picked, decoded>>
    /\ UNCHANGED <<labVars, probe, calls, api>>

NextLabel ==
    \/ LabelBegin \/ LabelScan \/ LabelFill \/ LabelFillEnd \/ LabelFinish
    \/ LabelSelect \/ LabelCrop

SpecLabel == Init /\ [][NextLabel]_vars

\* after the await the function runs without suspension: a step that can be
\* taken is taken
SpecLabelFair == SpecLabel /\ WF_vars(NextLabel)

(***************************************************************************)
(* The helpers called on their own: probe records the function, its        *)
(* arguments and its result.                                               *)
(***************************************************************************)
\* channel values around every threshold of isLikelyGreen, within 0..255
Channels == {0, 14, 15, 16, 29, 30, 31, 34, 35, 36, 49, 50, 51, 55, 69, 70, 71, 120, 200, 255}

\* source widths around the 320 cap and heights around the rounding boundaries
SrcWidths == {1, 2, 3, 100, 319, 320, 321, 384, 640, 641, 1000, 1280, 4000, 4992, 6000}
SrcHeights == {1, 2, 3, 5, 39, 100, 117, 195, 200, 273, 320, 321, 975, 1000}

\* isLikelyGreen(r, g, b)
ProbeIsLikelyGreen ==
    /\ probe.fn = "none"
    /\ \E r \in Channels, g \in Channels, b \in Channels :
          probe' = [fn |-> "isLikelyGreen", in |-> <<r, g, b>>, out |-> <<isLikelyGreen(r, g, b)>>]
    /\ UNCHANGED <<pipeVars, labVars, calls, api>>

\* lines 51-58 for srcW, srcH >= 1: targetW and targetH
ProbeDownscale ==
    /\ probe.fn = "none"
    /\ \E srcW \in SrcWidths, srcH \in SrcHeights :
          probe' = [fn |-> "downscale", in |-> <<srcW, srcH>>,
                    out |-> <<TargetW(srcW), TargetH(srcW, srcH)>>]
    /\ UNCHANGED <<pipeVars, labVars, calls, api>>

\* boxes inside an image of maxW x maxH pixels
MaxBoxSide == 16
BoxImageSizes == {<<10, 12>>, <<20, 20>>, <<30, 12>>}
ProbeBoxes(maxW, maxH) ==
    { b \in [x : 0..MaxBoxSide, y : {0, 1, 3}, w : 1..MaxBoxSide, h : {1, 5, 10, 15}] :
        b.x + b.w <= maxW /\ b.y + b.h <= maxH }

\* expandBBox(bbox, 1.2, maxW, maxH)
ProbeExpandBBox ==
    /\ probe.fn = "none"
    /\ \E sz \in BoxImageSizes :
          \E bbox \in ProbeBoxes(sz[1], sz[2]) :
              probe' = [fn |-> "expandBBox", in |-> <<bbox, sz[1], sz[2]>>,
                        out |-> <<expandBBox(bbox, ExpandFactor, sz[1], sz[2])>>]
    /\ UNCHANGED <<pipeVars, labVars, calls, api>>

NextPure == ProbeIsLikelyGreen \/ ProbeDownscale \/ ProbeExpandBBox

SpecPure == Init /\ [][NextPure]_vars

(***************************************************************************)
(* callAnalysisAPI as a state machine                                      *)
(***************************************************************************)
\* the request's taskType and the text of the response: its body ("" when the
\* response has no text, "object" valid JSON in braces, "brokenObject" braces
\* around invalid JSON, "number" valid JSON without braces) and whether the
\* body is wrapped in a ```json fence
TaskTypes == {"VISION_FAST", "GENERATE_JSON", "CHAT_INTERACTIVE"}
ResponseTexts == [body : {"", "plain", "object", "brokenObject", "number"}, fenced : BOOLEAN]

\* lines 102-118: the fence is stripped for GENERATE_JSON; JSON.parse is tried
\* for GENERATE_JSON or a text in braces; the text is kept when parsing fails
ParsedResult(taskType, text) ==
    LET clean == IF taskType = "GENERATE_JSON" THEN [text EXCEPT !.fenced = FALSE] ELSE text
        inBraces == ~clean.fenced /\ clean.body \in {"object", "brokenObject"}
        valid == ~clean.fenced /\ clean.body \in {"object", "number"}
    IN  IF (taskType = "GENERATE_JSON" \/ inBraces) /\ valid
        THEN [parsed |-> TRUE, text |-> clean]
        ELSE [parsed |-> FALSE, text |-> clean]

\* callAnalysisAPI(request) up to the first await; without a client it throws
ApiCall ==
    /\ api.pc = "idle"
    /\ \E hasClient \in BOOLEAN :
          api' = IF hasClient THEN Request(api, 1, 0)
                 ELSE [api EXCEPT !.pc = "threw", !.thrown = <<MissingTokenError>>]
    /\ UNCHANGED <<pipeVars, labVars, probe, calls>>

\* generateContent resolves: the response is returned (lines 102-124)
ApiRespond ==
    /\ api.pc = "requesting"
    /\ \E taskType \in TaskTypes, text \in ResponseTexts :
          api' = [Ended(api, "ok") EXCEPT
                     !.pc = "returned",
                     !.result = <<[success |-> TRUE, result |-> ParsedResult(taskType, text)]>>]
    /\ UNCHANGED <<pipeVars, labVars, probe, calls>>

\* generateContent rejects (lines 127-161)
ApiFail ==
    /\ api.pc = "requesting"
    /\ \E error \in ApiErrors, jitter \in Jitters : api' = Catch(api, error, jitter)
    /\ UNCHANGED <<pipeVars, labVars, probe, calls>>

\* the delay has elapsed: continue, the next attempt on the same model
ApiRetry ==
    /\ api.pc = "backoff"
    /\ api' = Request(api, api.model, api.attempt + 1)
    /\ UNCHANGED <<pipeVars, labVars, probe, calls>>

NextApi == ApiCall \/ ApiRespond \/ ApiFail \/ ApiRetry

SpecApi == Init /\ [][NextApi]_vars

(***************************************************************************)
(* Properties                                                              *)
(***************************************************************************)
AllOutCtxOk == \A i \in 1..Len(outCtxOk) : outCtxOk[i]

NoForeground(img) ==
    \A i \in DOMAIN img.data : ~isLikelyGreen(img.data[i][1], img.data[i][2], img.data[i][3])

\* C1: every returned bbox lies inside the source image and is at least 1 x 1:
\* 0 <= x, 0 <= y, x + w <= srcW, y + h <= srcH, w >= 1, h >= 1
BBoxContained ==
    pc = "returned" =>
        \A i \in 1..Len(results) :
            LET b == results[i].bbox
            IN  /\ 0 <= b.x /\ 0 <= b.y
                /\ b.x + b.w <= image.srcW /\ b.y + b.h <= image.srcH
                /\ b.w >= 1 /\ b.h >= 1

\* a downscaled source with several crops, one of them cut at the right and
\* bottom edges of the image and one starting inside the image
BBoxContainedWitness ==
    /\ pc = "returned" /\ image.srcW > MaxSegW /\ Len(results) >= 2
    /\ \E i \in 1..Len(results) :
          /\ results[i].bbox.x > 0
          /\ results[i].bbox.x + results[i].bbox.w = image.srcW
          /\ results[i].bbox.y + results[i].bbox.h = image.srcH
    /\ \E i \in 1..Len(results) :
          results[i].bbox.x > 0 /\ results[i].bbox.x + results[i].bbox.w < image.srcW

\* C2: the returned crops are in non-increasing order of the area of the
\* component each one was cut from, also when picked components were skipped
MonotonicRanking ==
    pc = "returned" =>
        /\ \A i \in 1..Len(results) :
              /\ results[i].rank \in 1..Len(picked)
              /\ results[i].bbox =
                    CropOf(picked[results[i].rank], results[i].rank, image.srcW, image.srcH).bbox
        /\ \A i, j \in 1..Len(results) :
              i < j => picked[results[i].rank].area >= picked[results[j].rank].area

\* three picked components found in another order than by area, the middle one skipped
MonotonicRankingWitness ==
    /\ pc = "returned" /\ Len(picked) = 3 /\ Len(results) = 2
    /\ outCtxOk = <<TRUE, FALSE, TRUE>>
    /\ components[1].area < components[2].area
    /\ picked[results[1].rank].area > picked[results[2].rank].area

\* C3: at most max(1, maxLeaves) crops are returned, for every integer maxLeaves
CardinalityBound == pc = "returned" => Len(results) <= Max2(1, maxLeaves)

\* a non-positive maxLeaves with more than one surviving component: one crop
CardinalityBoundWitness ==
    /\ pc = "returned" /\ maxLeaves < 1 /\ Len(components) >= 2 /\ Len(results) = 1

\* C4: with every drawing surface acquired, the number of crops is
\* min(surviving components, max(1, maxLeaves)); it may be 0
CropCount ==
    (pc = "returned" /\ segCtxOk /\ AllOutCtxOk) =>
        Len(results) = Min2(Len(components), Max2(1, maxLeaves))

\* fewer surviving components than requested leaves
CropCountWitness ==
    /\ pc = "returned" /\ segCtxOk /\ AllOutCtxOk
    /\ Len(components) = 2 /\ maxLeaves = 3 /\ Len(results) = 2

\* C6: zero width or height, no component above the noise floor, or no 2D
\* context for the segmentation canvas: the call returns the empty sequence
EmptyCases ==
    (decoded /\ (image.srcW = 0 \/ image.srcH = 0 \/ ~segCtxOk \/ Len(components) = 0)) =>
        (pc = "returned" /\ results = <<>>)

\* an image with blobs above the noise floor whose segmentation context is null
EmptyCasesWitness ==
    /\ pc = "returned" /\ decoded /\ ~segCtxOk /\ results = <<>>
    /\ image \in BlobImages

\* C7: only a rejected decode makes the call throw; once decode has resolved
\* the call is returning or has returned
OnlyDecodeThrows ==
    /\ pc = "threw" => ~decoded
    /\ decoded => pc \in {"segmented", "returned"}
    /\ pc = "segmented" => ENABLED Crop

\* a call that returned a partial result after a component was skipped
OnlyDecodeThrowsWitness ==
    /\ pc = "returned" /\ decoded
    /\ Len(results) >= 1 /\ Len(results) < Len(picked)

\* the crops of the picked components whose context was acquired, in rank order
RenderedRanks == SelectSeq([i \in 1..Len(picked) |-> i], LAMBDA i : outCtxOk[i])

\* C8: a picked component whose context is null is skipped, and only it: the
\* result is the crops of the other picked components in rank order
SkipOnlyFailed ==
    pc = "returned" =>
        /\ Len(results) = Len(RenderedRanks)
        /\ \A k \in 1..Len(results) :
              results[k] = CropOf(picked[RenderedRanks[k]], RenderedRanks[k],
                                  image.srcW, image.srcH)

\* the first of three picked components is skipped, the other two are returned
SkipOnlyFailedWitness ==
    /\ pc = "returned" /\ Len(picked) = 3
    /\ outCtxOk = <<FALSE, TRUE, TRUE>>
    /\ Len(results) = 2 /\ results[1].rank = 2 /\ results[2].rank = 3

\* C9: an image without a foreground pixel yields the empty sequence
NoiseRejection ==
    (decoded /\ NoForeground(image)) =>
        (pc = "returned" /\ components = <<>> /\ results = <<>>)

\* the uniform (10,10,10) image of 15 x 14 pixels, context acquired
NoiseRejectionWitness ==
    /\ pc = "returned" /\ decoded /\ segCtxOk /\ maxLeaves = MaxLeavesBound
    /\ image = Uniform(15, 14, Dark)

IsGreenFrame100 ==
    /\ image.srcW = 100 /\ image.srcH = 100
    /\ \A i \in DOMAIN image.data : image.data[i] = Green

\* C10: the 100 x 100 image of (0,200,0) pixels has exactly one component, its
\* downscaled box is the whole frame, and its crop is {x:0, y:0, w:100, h:100}
FullFrameBlob ==
    (IsGreenFrame100 /\ decoded /\ segCtxOk) =>
        /\ Len(components) = 1
        /\ components[1].area = 100 * 100
        /\ BBoxSmall(components[1]) = [x |-> 0, y |-> 0, w |-> 100, h |-> 100]
        /\ (pc = "returned" /\ AllOutCtxOk) =>
              /\ Len(results) = 1
              /\ results[1].bbox = [x |-> 0, y |-> 0, w |-> 100, h |-> 100]

FullFrameBlobWitness ==
    /\ IsGreenFrame100 /\ pc = "returned" /\ segCtxOk /\ AllOutCtxOk
    /\ Len(results) = 1

\* the crop box the code derives from a rectangle of the raster
BBoxOfRect(r, srcW, srcH) ==
    expandBBox(BBoxSrc([x |-> r.x0, y |-> r.y0, w |-> r.w, h |-> r.h], srcW),
               ExpandFactor, srcW, srcH)

\* C11: two separated squares of different sizes, maxLeaves = 2: exactly two
\* crops, the first one cut from the larger square
TwoBlobsLargerFirst ==
    \A c \in TwoSquareCases :
        (/\ pc = "returned" /\ maxLeaves = 2 /\ segCtxOk /\ AllOutCtxOk
         /\ image.srcW = c.srcW /\ image.srcH = c.srcH /\ image = TwoSquareImage(c)) =>
            /\ Len(results) = 2
            /\ results[1].bbox = BBoxOfRect(c.big, c.srcW, c.srcH)
            /\ results[2].bbox = BBoxOfRect(c.small, c.srcW, c.srcH)

\* the smaller square is the one the scan discovers first
TwoBlobsLargerFirstWitness ==
    /\ pc = "returned" /\ maxLeaves = 2 /\ segCtxOk /\ AllOutCtxOk /\ Len(results) = 2
    /\ \E c \in TwoSquareCases :
          /\ image.srcW = c.srcW /\ image.srcH = c.srcH /\ image = TwoSquareImage(c)
          /\ c.small.y0 < c.big.y0
          /\ components[1].area = c.small.w * c.small.h

(***************************************************************************)
(* Properties of the labeling loops (SpecLabel)                            *)
(***************************************************************************)
Labeling == pc \in {"labeling", "labeled"}
Pixels == 0..(grid.w * grid.h - 1)
Foreground == { p \in Pixels : grid.mask[p] = 1 }
MembersOf(fill) == { p \in Pixels : fill \in ghost.countedBy[p] }
SetMax(S) == CHOOSE m \in S : \A k \in S : m >= k

\* the last pixel of row r and the first pixel of row r + 1
RowEnd(r) == r * grid.w + grid.w - 1
RowStart(r) == r * grid.w

\* C12: the last pixel of a row and the first pixel of the next row, which are
\* consecutive linear indices, are never counted by the same fill unless a
\* 4-connected path of foreground pixels joins them.
NoWrapMerge ==
    Labeling =>
        \A r \in 0..(grid.h - 2) :
            (ghost.countedBy[RowEnd(r)] \cap ghost.countedBy[RowStart(r + 1)] # {}) =>
                ghost.class4[RowEnd(r)] = ghost.class4[RowStart(r + 1)]

\* labeling is over, and some row ends on a foreground pixel that no path joins
\* to the foreground pixel on which the next row starts
NoWrapMergeWitness ==
    /\ pc = "labeled"
    /\ grid.w >= 2
    /\ \E r \in 0..(grid.h - 2) :
          /\ grid.mask[RowEnd(r)] = 1
          /\ grid.mask[RowStart(r + 1)] = 1
          /\ ghost.class4[RowEnd(r)] # ghost.class4[RowStart(r + 1)]
          /\ ghost.countedBy[RowEnd(r)] # {}
          /\ ghost.countedBy[RowStart(r + 1)] # {}

\* C16: when labeling is over every foreground pixel was counted exactly once,
\* by exactly one fill, no background pixel was counted, and two foreground
\* pixels were counted by the same fill exactly when a 4-connected path of
\* foreground pixels joins them (pixels that touch only at a corner are apart).
MaximalGroups ==
    pc = "labeled" =>
        /\ \A p \in Pixels :
              IF grid.mask[p] = 1
              THEN Cardinality(ghost.countedBy[p]) = 1 /\ ghost.pops[p] = 1
              ELSE ghost.countedBy[p] = {} /\ ghost.pops[p] = 0
        /\ \A p, q \in Foreground :
              (ghost.countedBy[p] = ghost.countedBy[q]) <=> (ghost.class4[p] = ghost.class4[q])

\* labeling is over on a mask with a group of three or more pixels and with two
\* foreground pixels that touch at a corner and lie in different groups
MaximalGroupsWitness ==
    /\ pc = "labeled"
    /\ \E p \in Foreground : Cardinality(MembersOf(SetMin(ghost.countedBy[p]))) >= 3
    /\ \E p, q \in Foreground :
          /\ q = p + grid.w + 1
          /\ p % grid.w < grid.w - 1
          /\ ghost.countedBy[p] # ghost.countedBy[q]

\* box is the exact area and bounding box of the pixels counted by fill
ExactBox(box, fill) ==
    LET M == MembersOf(fill)
    IN  /\ box.area = Cardinality(M)
        /\ box.area >= 1
        /\ box.minX = SetMin({ p % grid.w : p \in M })
        /\ box.maxX = SetMax({ p % grid.w : p \in M })
        /\ box.minY = SetMin({ p \div grid.w : p \in M })
        /\ box.maxY = SetMax({ p \div grid.w : p \in M })
        /\ 0 <= box.minX /\ box.maxX < grid.w
        /\ 0 <= box.minY /\ box.maxY < grid.h

\* C17: every recorded component, and every component at the end of its fill,
\* has for area the number of pixels its fill counted (at least 1) and for
\* minX, maxX, minY, maxY the exact extremes of those pixels, inside
\* [0, targetW) x [0, targetH).
ExactComponents ==
    Labeling =>
        /\ \A i \in 1..Len(lab.comps) : ExactBox(lab.comps[i], ghost.compFill[i])
        /\ (lab.filling /\ Len(lab.stack) = 0) => ExactBox(lab.cur, ghost.fills)

\* a recorded component that is not a full rectangle, is not the first fill and
\* does not start at column 0
ExactComponentsWitness ==
    /\ pc = "labeled"
    /\ \E i \in 1..Len(lab.comps) :
          LET c == lab.comps[i]
          IN  /\ c.area < (c.maxX - c.minX + 1) * (c.maxY - c.minY + 1)
              /\ ghost.compFill[i] > 1
              /\ c.minX > 0

RECURSIVE SumAreas(_)
SumAreas(comps) == IF comps = <<>> THEN 0 ELSE comps[1].area + SumAreas(Tail(comps))

\* C18: in every state of the labeling loops every pixel was counted at most
\* once and by at most one fill, and the areas of the recorded components add
\* up to at most the number of mask pixels set to 1.
DisjointComponents ==
    Labeling =>
        /\ \A p \in Pixels : Cardinality(ghost.countedBy[p]) <= 1 /\ ghost.pops[p] <= 1
        /\ SumAreas(lab.comps) <= Cardinality(Foreground)

\* in the middle of a fill, one component recorded, and foreground left over
DisjointComponentsWitness ==
    /\ pc = "labeling"
    /\ lab.filling
    /\ Len(lab.stack) > 0
    /\ lab.cur.area > 0
    /\ Len(lab.comps) >= 1
    /\ SumAreas(lab.comps) < Cardinality(Foreground)

\* C19: over the whole run each pixel is pushed at most once, only foreground
\* pixels are pushed and a pushed pixel is marked visited; the stack is never
\* longer than the 4-connected group of the seed being filled, and it is empty
\* outside a fill and whenever a seed is taken.
PushOnce ==
    Labeling =>
        /\ \A p \in Pixels :
              /\ ghost.pushes[p] <= 1
              /\ ghost.pushes[p] >= 1 => (grid.mask[p] = 1 /\ lab.visited[p] = 1)
        /\ IF lab.filling
           THEN Len(lab.stack) <=
                    Cardinality({ p \in Pixels : ghost.class4[p] = ghost.class4[ghost.seed] })
           ELSE Len(lab.stack) = 0
        /\ ghost.seedStack = 0

\* a second fill is under way with three or more pixels on the stack
PushOnceWitness ==
    /\ pc = "labeling"
    /\ lab.filling
    /\ ghost.fills >= 2
    /\ Len(lab.stack) >= 3

(***************************************************************************)
(* Properties of the helpers (SpecPure)                                    *)
(***************************************************************************)
\* C14 as stated: foreground exactly when none of green < 50, green <= red + 20,
\* green <= blue + 15, red + green + blue < 120 applies, so that green = red + 20
\* and green = blue + 15 are background.
ClassifierInclusiveRules ==
    probe.fn = "isLikelyGreen" =>
        LET r == probe.in[1]
            g == probe.in[2]
            b == probe.in[3]
        IN  probe.out[1] <=> ~(g < 50 \/ g <= r + 20 \/ g <= b + 15 \/ r + g + b < 120)

\* C14: a pixel is foreground exactly when green is at least 50, exceeds red by
\* at least 20 and blue by at least 15, and the three channels add up to at
\* least 120; a pixel with green = red + 20 or green = blue + 15 is foreground
\* when the other three conditions hold.
ClassifierRules ==
    probe.fn = "isLikelyGreen" =>
        LET r == probe.in[1]
            g == probe.in[2]
            b == probe.in[3]
        IN  probe.out[1] <=> (g >= 50 /\ g - r >= 20 /\ g - b >= 15 /\ r + g + b >= 120)

\* a pixel on both dominance boundaries, classified foreground
ClassifierRulesWitness ==
    /\ probe.fn = "isLikelyGreen"
    /\ probe.in[2] = probe.in[1] + 20
    /\ probe.in[2] = probe.in[3] + 15
    /\ probe.out[1]

\* C15: targetW = min(320, srcW) and targetH = max(1, round(srcH * targetW / srcW)),
\* rounding halves up; hence 1 <= targetW <= 320, targetH >= 1, targetW <= srcW.
WorkingResolution ==
    probe.fn = "downscale" =>
        LET srcW == probe.in[1]
            srcH == probe.in[2]
            targetW == probe.out[1]
            targetH == probe.out[2]
        IN  /\ targetW = (IF srcW < 320 THEN srcW ELSE 320)
            /\ \E k \in 0..srcH :
                  /\ (2 * k - 1) * srcW <= 2 * srcH * targetW
                  /\ 2 * srcH * targetW < (2 * k + 1) * srcW
                  /\ targetH = (IF k < 1 THEN 1 ELSE k)
            /\ 1 <= targetW /\ targetW <= 320
            /\ targetH >= 1
            /\ targetW <= srcW

(***************************************************************************)
(* Properties of the noise floor (SpecFloor)                               *)
(***************************************************************************)
\* the component that a rectangle standing alone gives
CompOfRect(r) ==
    [area |-> r.w * r.h, minX |-> r.x0, maxX |-> r.x0 + r.w - 1,
     minY |-> r.y0, maxY |-> r.y0 + r.h - 1]

\* area is at least 200 and at least the hundredth part of n rounded halves up
AboveFloor(area, n) == area >= 200 /\ 200 * area + 100 > 2 * n

\* C20: a component is recorded, and so selectable, exactly when its area is
\* at least max(200, round(0.01 * targetW * targetH)); a smaller one gives no
\* crop, and every one at or above the threshold gives a crop when maxLeaves
\* and the drawing contexts allow.
NoiseFloor ==
    \A c \in FloorCases :
        (/\ pc \in {"segmented", "returned"} /\ decoded /\ segCtxOk
         /\ image.srcW = c.srcW /\ image.srcH = c.srcH /\ image = FloorImage(c)) =>
            LET n == TargetW(c.srcW) * TargetH(c.srcW, c.srcH)
                Kept == { k \in 1..Len(c.rects) : AboveFloor(c.rects[k].w * c.rects[k].h, n) }
                Box(k) == BBoxOfRect(c.rects[k], c.srcW, c.srcH)
            IN  /\ Len(components) = Cardinality(Kept)
                /\ \A k \in 1..Len(c.rects) :
                      (k \in Kept) <=>
                          (\E i \in 1..Len(components) : components[i] = CompOfRect(c.rects[k]))
                /\ pc = "returned" =>
                      \A i \in 1..Len(results) : \E k \in Kept : results[i].bbox = Box(k)
                /\ (pc = "returned" /\ AllOutCtxOk /\ maxLeaves >= Len(components)) =>
                      \A k \in Kept : \E i \in 1..Len(results) : results[i].bbox = Box(k)

\* on the 320 x 63 raster, where the threshold is 202, the rectangles of areas
\* 200 and 201 are dropped and the two larger ones are cropped
NoiseFloorWitness ==
    /\ pc = "returned"
    /\ image.srcW = 640 /\ image.srcH = 126
    /\ Len(components) = 2
    /\ Len(results) = 2
    /\ \A i \in 1..2 : components[i].area >= 202

(***************************************************************************)
(* Properties of concurrent invocations (SpecPair)                         *)
(***************************************************************************)
\* what computeLeafCrops(src, leaves) returns when no other invocation runs,
\* with the drawing contexts it was given
RunAlone(src, leaves, ctxOk, ok) ==
    LET r == Segment(src, ctxOk)
    IN  IF r.pcNext # "segmented" THEN <<>>
        ELSE CropLoop(1, Pick(r.comps, leaves), ok, <<>>, src.srcW, src.srcH)

\* C13: in every interleaving of two invocations at their awaited decode, an
\* invocation that has returned returns what it returns when run alone on its
\* own arguments, and the two invocations hold different Image objects.
NoSharedState ==
    /\ \A i \in Invocations :
          calls.inv[i].pc = "returned" =>
              calls.inv[i].results =
                  RunAlone(calls.inv[i].sourceDataUrl, calls.inv[i].maxLeaves,
                           calls.inv[i].segCtxOk, calls.inv[i].outCtxOk)
    /\ \A i, j \in Invocations :
          (i # j /\ calls.inv[i].pc # "idle" /\ calls.inv[j].pc # "idle") =>
              calls.inv[i].img # calls.inv[j].img

\* invocation 1 was called first and returned last, on another image than
\* invocation 2, and the two returned different crops
NoSharedStateWitness ==
    /\ calls.inv[1].pc = "returned"
    /\ calls.inv[2].pc = "returned"
    /\ calls.inv[1].img = 1
    /\ calls.inv[1].sourceDataUrl # calls.inv[2].sourceDataUrl
    /\ calls.inv[1].results # <<>>
    /\ calls.inv[2].results # <<>>
    /\ calls.inv[1].results # calls.inv[2].results

(***************************************************************************)
(* Properties of discovery order (SpecLabel)                               *)
(***************************************************************************)
\* the seed of the fill that produced the recorded component c
SeedOfComponent(c) ==
    ghost.seeds[ghost.compFill[CHOOSE i \in 1..Len(components) : components[i] = c]]

\* C21: the seed of every fill is the least linear index of the pixels it
\* counts, fills and recorded components come in increasing order of seed, and
\* of two picked components of equal area the one with the smaller seed is
\* ranked first.
DiscoveryOrder ==
    pc \in {"labeling", "labeled", "picked"} =>
        /\ \A k \in 1..Len(ghost.sizes) : ghost.seeds[k] = SetMin(MembersOf(k))
        /\ \A k \in 1..(Len(ghost.seeds) - 1) : ghost.seeds[k] < ghost.seeds[k + 1]
        /\ \A i \in 1..(Len(ghost.compFill) - 1) : ghost.compFill[i] < ghost.compFill[i + 1]
        /\ pc = "picked" =>
              \A i, j \in 1..Len(picked) :
                  (i < j /\ picked[i].area = picked[j].area) =>
                      SeedOfComponent(picked[i]) < SeedOfComponent(picked[j])

\* two picked components of equal area, of which the first ranked lies to the
\* right of the second
DiscoveryOrderWitness ==
    /\ pc = "picked"
    /\ Len(picked) = 2
    /\ picked[1].area = picked[2].area
    /\ picked[1].minX > picked[2].maxX
    /\ SeedOfComponent(picked[1]) < SeedOfComponent(picked[2])

(***************************************************************************)
(* Properties of the crop geometry (SpecPure)                              *)
(***************************************************************************)
\* the box of 1.2 times the sides of b around the centre of b lies inside the
\* image of maxW x maxH pixels: b.x - b.w / 10 >= 0, b.x + 11 * b.w / 10 <= maxW
ExpandedInside(b, maxW, maxH) ==
    /\ 10 * b.x - b.w >= 0 /\ 10 * b.x + 11 * b.w <= 10 * maxW
    /\ 10 * b.y - b.h >= 0 /\ 10 * b.y + 11 * b.h <= 10 * maxH

\* C22: when the 1.2x box lies entirely inside the image, the sides of the
\* result are within one pixel of 1.2 times the sides of the box, and its
\* centre is within one pixel of the centre of the box in each axis.
ExpandAroundCentre ==
    (probe.fn = "expandBBox" /\ ExpandedInside(probe.in[1], probe.in[2], probe.in[3])) =>
        LET b == probe.in[1]
            e == probe.out[1]
        IN  /\ Abs(10 * e.w - 12 * b.w) <= 10
            /\ Abs(10 * e.h - 12 * b.h) <= 10
            /\ Abs((2 * e.x + e.w) - (2 * b.x + b.w)) <= 2
            /\ Abs((2 * e.y + e.h) - (2 * b.y + b.h)) <= 2

\* a box of 15 columns and rows or more whose 1.2x box is inside the image and is larger
ExpandAroundCentreWitness ==
    /\ probe.fn = "expandBBox"
    /\ ExpandedInside(probe.in[1], probe.in[2], probe.in[3])
    /\ probe.in[1].w >= 15
    /\ probe.in[1].h >= 15
    /\ probe.out[1].w > probe.in[1].w
    /\ probe.out[1].x < probe.in[1].x

(***************************************************************************)
(* Properties of the crops of full frames (SpecFrame)                      *)
(***************************************************************************)
\* C23: the thumbnail of every crop with final bbox (w, h) has width
\* outW = min(320, w) and height outH = max(1, round(h * outW / w)), rounding
\* halves up, with 1 <= outH <= h.
ThumbnailSize ==
    pc = "returned" =>
        \A i \in 1..Len(results) :
            LET w == results[i].bbox.w
                h == results[i].bbox.h
                outW == results[i].dataUrl.outW
                outH == results[i].dataUrl.outH
            IN  /\ outW = (IF w < 320 THEN w ELSE 320)
                /\ 1 <= outH /\ outH <= h
                /\ \E k \in 0..h :
                      /\ (2 * k - 1) * w <= 2 * h * outW
                      /\ 2 * h * outW < (2 * k + 1) * w
                      /\ outH = (IF k < 1 THEN 1 ELSE k)

\* C25: the crop of a uniformly foreground image, downscaled or not, has for
\* bbox the whole source image.
WholeSourceCrop ==
    (pc = "returned" /\ image \in FrameImages) =>
        \A i \in 1..Len(results) :
            results[i].bbox = [x |-> 0, y |-> 0, w |-> image.srcW, h |-> image.srcH]

(***************************************************************************)
(* Termination (SpecLabelFair)                                             *)
(***************************************************************************)
\* C24: once the image is decoded and the labeling loops have begun, the
\* function returns; and when it has returned the stack is empty, no fill is
\* under way and the scan is past the last pixel.
RunsToCompletion ==
    /\ (pc = "labeling") ~> (pc = "returned")
    /\ [](pc = "returned" =>
            (Len(lab.stack) = 0 /\ ~lab.filling /\ lab.idx = grid.w * grid.h))

\* the function has returned two crops after two fills
RunsToCompletionWitness ==
    /\ pc = "returned"
    /\ ghost.fills >= 2
    /\ Len(results) = 2
    /\ lab.idx = grid.w * grid.h

(***************************************************************************)
(* Further properties of the pipeline (Spec)                               *)
(***************************************************************************)
\* C26: an image whose raster has fewer than 200 pixels gives no component
\* and an empty result, whatever its pixels and whatever maxLeaves is.
SmallRasterEmpty ==
    (/\ pc \in {"segmented", "returned"} /\ decoded
     /\ image.srcW > 0 /\ image.srcH > 0
     /\ TargetW(image.srcW) * TargetH(image.srcW, image.srcH) < 200) =>
        /\ pc = "returned"
        /\ components = <<>>
        /\ results = <<>>

\* the 14 x 14 image of foreground pixels only, with maxLeaves = 3
SmallRasterEmptyWitness ==
    /\ pc = "returned" /\ segCtxOk
    /\ image.srcW = 14 /\ image.srcH = 14
    /\ \A i \in DOMAIN image.data : image.data[i] = Green
    /\ maxLeaves = 3
    /\ results = <<>>

\* the source-space box of the component behind the crop results[i], before
\* expansion
MappedBox(i) == BBoxSrc(BBoxSmall(picked[results[i].rank]), image.srcW)

\* C27: the final bbox of every crop contains the source-space box of its
\* component before expansion, restricted to the image.
ExpansionContains ==
    pc = "returned" =>
        \A i \in 1..Len(results) :
            LET b == results[i].bbox
                m == MappedBox(i)
            IN  /\ b.x <= m.x
                /\ b.y <= m.y
                /\ b.x + b.w >= Min2(m.x + m.w, image.srcW)
                /\ b.y + b.h >= Min2(m.y + m.h, image.srcH)

\* a crop of a downscaled image that is larger than the box before expansion
\* on the left and is cut at the image's lower edge
ExpansionContainsWitness ==
    /\ pc = "returned"
    /\ image.srcW > 320
    /\ \E i \in 1..Len(results) :
          /\ results[i].bbox.x < MappedBox(i).x
          /\ results[i].bbox.w > MappedBox(i).w
          /\ results[i].bbox.y + results[i].bbox.h = image.srcH

\* what computeLeafCrops(image, leaves) returns when every drawing surface is
\* acquired
ResultFor(leaves) == RunAlone(image, leaves, TRUE, [i \in 1..Max2(1, leaves) |-> TRUE])

\* C28: with every drawing surface acquired, the result for maxLeaves = k >= 1
\* is a prefix of the result for maxLeaves = k + 1 on the same image.
PrefixOnRaise ==
    (pc = "returned" /\ segCtxOk /\ AllOutCtxOk /\ maxLeaves >= 1) =>
        \E next \in {ResultFor(maxLeaves + 1)} :
            /\ Len(results) <= Len(next)
            /\ Len(next) <= Len(results) + 1
            /\ \A i \in 1..Len(results) : results[i] = next[i]

\* two crops returned for maxLeaves = 2 on an image with three components,
\* found in another order than that of their areas
PrefixOnRaiseWitness ==
    /\ pc = "returned" /\ segCtxOk /\ AllOutCtxOk
    /\ maxLeaves = 2
    /\ Len(components) = 3
    /\ Len(results) = 2
    /\ components[1].area < components[2].area
    /\ Len(ResultFor(3)) = 3


====
